---- MODULE Spec2Model ----
(***************************************************************************)
(* A model of src/youtube.py: the URL validator, the quality normalisation *)
(* of main, download_video and the reporting of main.                      *)
(*                                                                         *)
(* Strings are sequences of pieces.  A piece is an atomic run of           *)
(* characters (a word such as "youtube.com" or a single delimiter such as  *)
(* "/"): no piece is a substring of a concatenation of other pieces, so    *)
(* Python's `needle in text` is "some piece of text is needle", str.find   *)
(* is the index of the first such piece, and str.lower / str.strip act     *)
(* piece by piece.                                                         *)
(***************************************************************************)
EXTENDS Integers, Sequences, FiniteSets, TLC

VARIABLES
    entry,          \* which function of the module the run started in
    pc,             \* the position of the run in the code
    url,            \* main's / download_video's url
    qToken,         \* what input() returned at the quality prompt, stripped
    quality,        \* main's local `quality`
    argQuality,     \* download_video's parameter `quality`
    valid,          \* what is_valid_url returned ("unset" before the call)
    policy,         \* which branch of lines 75-80 was taken
    listed,         \* the streams yt.streams listed
    stream,         \* download_video's local `stream`
    ret,            \* what download_video returned ("unset" before it returns)
    out,            \* the messages printed so far
    calls,          \* how often each operation was invoked
    fileWritten,    \* whether the collaborator wrote (part of) a file
    exc,            \* the exceptions raised so far inside download_video's try
    intAt,          \* the position at which KeyboardInterrupt arrived
    fault,          \* the exception that left the run uncaught
    exitStatus      \* the process's exit status (-1 while it runs)

vars == <<entry, pc, url, qToken, quality, argQuality, valid, policy, listed, stream,
          ret, out, calls, fileWritten, exc, intAt, fault, exitStatus>>

\* ------------------------------------------------------------- bounds
MaxFreeLen == 4     \* URLs of up to this many pieces, every combination
MaxAuthLen == 3     \* scheme://authority URLs: pieces after the "//"
MaxPad == 1         \* blanks before and after what is typed at a prompt
MaxStreams == 2     \* streams the collaborator lists for a video

\* ------------------------------------------------------------ strings
SeqsUpTo(S, n) == UNION {[1..k -> S] : k \in 0..n}

Has(s, piece) == \E i \in 1..Len(s) : s[i] = piece

\* str.find: the index of the first occurrence, 0 when there is none
\* (Python's -1; Python's index 0 is index 1 here).
Find(s, piece) ==
    IF Has(s, piece)
    THEN CHOOSE i \in 1..Len(s) :
             s[i] = piece /\ \A k \in 1..(i - 1) : s[k] # piece
    ELSE 0

\* str.lower on one piece.
LowerPiece(p) ==
    CASE p = "HTTPS" -> "https"
      [] p = "YOUTUBE.COM" -> "youtube.com"
      [] p = "HIGHEST" -> "highest"
      [] p = "Lowest" -> "lowest"
      [] p = "AUDIO" -> "audio"
      [] OTHER -> p

Lower(s) == [i \in 1..Len(s) |-> LowerPiece(s[i])]

IsSpace(p) == p = " "

RECURSIVE LStrip(_)
LStrip(s) == IF s # <<>> /\ IsSpace(Head(s)) THEN LStrip(Tail(s)) ELSE s

RECURSIVE RStrip(_)
RStrip(s) ==
    IF s # <<>> /\ IsSpace(s[Len(s)]) THEN RStrip(SubSeq(s, 1, Len(s) - 1)) ELSE s

\* str.strip
Strip(s) == RStrip(LStrip(s))

\* ------------------------------------------------------ URL validator
Delimiters == {":", "/", "@", "["}
Words == {"http", "HTTPS", "ftp", "youtube.com", "youtu.be", "YOUTUBE.COM", "evil"}
UrlPieces == Words \cup Delimiters
SchemeWords == {"http", "HTTPS", "ftp"}

\* url[0].isascii() and url[0].isalpha()
StartsWithLetter(p) == p \in Words
\* every character of the piece is in urllib's scheme_chars (letters, digits, + - .)
InSchemeChars(p) == p \in Words

\* urlsplit's scheme step: a scheme is cut off at the first ":" when the text
\* before it starts with a letter and holds scheme characters only; it is
\* lower-cased.
SplitScheme(u) ==
    LET i == Find(u, ":")
    IN  IF /\ i > 1
           /\ StartsWithLetter(u[1])
           /\ \A k \in 1..(i - 1) : InSchemeChars(u[k])
        THEN [scheme |-> Lower(SubSeq(u, 1, i - 1)),
              rest   |-> SubSeq(u, i + 1, Len(u))]
        ELSE [scheme |-> <<>>, rest |-> u]

\* urlsplit's netloc step: after a leading "//", up to the next "/".
SplitNetloc(rest) ==
    IF Len(rest) >= 2 /\ rest[1] = "/" /\ rest[2] = "/"
    THEN LET tail == SubSeq(rest, 3, Len(rest))
             j    == Find(tail, "/")
         IN  IF j = 0 THEN tail ELSE SubSeq(tail, 1, j - 1)
    ELSE <<>>

\* urlsplit raises ValueError("Invalid IPv6 URL") on an unmatched bracket.
NetlocRaises(netloc) == Has(netloc, "[") # Has(netloc, "]")

urlparse(u) ==
    LET s == SplitScheme(u)
        n == SplitNetloc(s.rest)
    IN  [raised |-> NetlocRaises(n), scheme |-> s.scheme, netloc |-> n]

IsHttpScheme(scheme) == scheme \in {<<"http">>, <<"https">>}

IsYoutubeText(text) == Has(text, "youtube.com") \/ Has(text, "youtu.be")

is_valid_url_anyscheme(u) ==
    LET r == urlparse(u)
    IN  IF r.raised THEN FALSE ELSE IsYoutubeText(r.netloc)

is_valid_url(u) ==
    LET r == urlparse(u)
    IN  IF r.raised
        THEN FALSE
        ELSE IsHttpScheme(r.scheme) /\ IsYoutubeText(r.netloc)

\* ------------------------------------------------------- the program
\* SUPPORTED_QUALITIES
SUPPORTED_QUALITIES == <<"highest", "lowest", "audio">>

\* `token in SUPPORTED_QUALITIES`
InSupported(q) == \E i \in 1..Len(SUPPORTED_QUALITIES) : q = <<SUPPORTED_QUALITIES[i]>>

\* get_user_input's quality: input(...).strip() or SUPPORTED_QUALITIES[0]
GetQuality(line) ==
    LET s == Strip(line)
    IN  IF s = <<>> THEN <<SUPPORTED_QUALITIES[1]>> ELSE s

NormalizeQualityWarnOnly(q) ==
    [quality |-> q, warned |-> ~InSupported(Lower(q))]

\* main, lines 104-106
NormalizeQuality(q) ==
    IF ~InSupported(Lower(q))
    THEN [quality |-> <<"highest">>, warned |-> TRUE]
    ELSE [quality |-> q, warned |-> FALSE]

DownloadArgAsTyped(q) == q

\* main, line 109: the argument download_video gets
DownloadArg(q) == Lower(q)

ProceedsAlways(v) == TRUE

\* download_video, line 68: the run goes on to the try block
Proceeds(v) == v

\* download_video, lines 75-80: the branch the quality takes
Branch(q) ==
    IF q = <<"highest">> THEN "highest"
    ELSE IF q = <<"lowest">> THEN "lowest"
    ELSE IF q = <<"audio">> THEN "audio"
    ELSE "none"

\* The streams of a video, as the collaborator lists them.
StreamKinds ==
    { [res |-> 1, progressive |-> TRUE,  only_audio |-> FALSE],
      [res |-> 2, progressive |-> TRUE,  only_audio |-> FALSE],
      [res |-> 3, progressive |-> FALSE, only_audio |-> FALSE],
      [res |-> 0, progressive |-> FALSE, only_audio |-> TRUE] }
StreamLists == SeqsUpTo(StreamKinds, MaxStreams)

IsProgressive(s) == s.progressive
IsOnlyAudio(s) == s.only_audio

\* StreamQuery.first / .last: None (the empty sequence) on an empty query
First(q) == IF q = <<>> THEN <<>> ELSE <<q[1]>>

\* order_by("resolution") is a stable sort: .last() is the last of the
\* streams of greatest resolution, .first() the first of the least.
OrderedLast(q) ==
    IF q = <<>> THEN <<>>
    ELSE LET i == CHOOSE i \in 1..Len(q) :
                      /\ \A k \in 1..Len(q) : q[k].res <= q[i].res
                      /\ \A k \in (i + 1)..Len(q) : q[k].res < q[i].res
         IN  <<q[i]>>

OrderedFirst(q) ==
    IF q = <<>> THEN <<>>
    ELSE LET i == CHOOSE i \in 1..Len(q) :
                      /\ \A k \in 1..Len(q) : q[k].res >= q[i].res
                      /\ \A k \in 1..(i - 1) : q[k].res > q[i].res
         IN  <<q[i]>>

\* download_video, lines 76, 78, 80: None is <<>>, a stream s is <<s>>
SelectStream(streams, branch) ==
    CASE branch = "highest" -> OrderedLast(SelectSeq(streams, IsProgressive))
      [] branch = "lowest"  -> OrderedFirst(SelectSeq(streams, IsProgressive))
      [] branch = "audio"   -> First(SelectSeq(streams, IsOnlyAudio))
      [] OTHER              -> <<>>

StreamMissingNever(s) == FALSE

\* download_video, line 82: `if not stream`
StreamMissing(s) == s = <<>>

\* The exception classes and their bases.
Bases(kind) ==
    CASE kind = "PytubeError"       -> {"PytubeError", "Exception", "BaseException"}
      [] kind = "OSError"           -> {"OSError", "Exception", "BaseException"}
      [] kind = "EOFError"          -> {"EOFError", "Exception", "BaseException"}
      [] kind = "KeyboardInterrupt" -> {"KeyboardInterrupt", "BaseException"}

IsInstance(kind, cls) == cls \in Bases(kind)

DownloadHandlerPytubeOnly(kind) ==
    IF IsInstance(kind, "PytubeError") THEN "youtube_error" ELSE "propagate"

\* download_video, lines 89-92: the message of the except clause that takes
\* the exception, "propagate" when none does
DownloadHandler(kind) ==
    IF IsInstance(kind, "PytubeError") THEN "youtube_error"
    ELSE IF IsInstance(kind, "Exception") THEN "download_error"
    ELSE "propagate"

\* is_valid_url, line 53: a bare except takes every exception
ValidatorHandles(kind) == IsInstance(kind, "BaseException")

\* main, line 119
MainHandles(kind) == IsInstance(kind, "KeyboardInterrupt")

\* What the interpreter exits with on an exception nobody caught: a
\* traceback and status 1, and for KeyboardInterrupt the status of a
\* process killed by SIGINT.
UncaughtStatus(kind) == IF kind = "KeyboardInterrupt" THEN 130 ELSE 1

\* download_video's return (lines 70, 84, 87, 94): back in main at line 111,
\* or back in the caller
PcAfterReturn == IF entry = "main" THEN "report" ELSE "done"

PcAfterHandlerRetry == "construct"

\* download_video, lines 89-94: after an except clause the function falls
\* through to `return None`
PcAfterHandler == PcAfterReturn

\* The positions of main inside its try block (lines 102-117) and the
\* positions of download_video inside its own (lines 73-87).
MainTry == {"input_url", "input_quality", "normalize", "call", "validate",
            "construct", "select", "fetch", "report", "getsize"}
DownloadTry == {"construct", "select", "fetch"}

\* What the collaborator raises, and what it says.
CollaboratorErrors == {"PytubeError", "OSError"}
ErrTexts == {"Video unavailable", "timed out"}
Paths == {"src/videos/evil.mp4"}

\* The lines typed at the prompts.
Pads == SeqsUpTo({" "}, MaxPad)
Padded(texts) == {l \o t \o r : l \in Pads, t \in texts, r \in Pads}
UrlTexts ==
    { <<"http", ":", "/", "/", "youtube.com", "/", "evil">>,
      <<"HTTPS", ":", "/", "/", "youtu.be", "/", "evil">>,
      <<"http", ":", "/", "/", "youtube.com", "@", "evil">>,
      <<"ftp", ":", "/", "/", "youtube.com">>,
      <<"http", ":", "/", "/", "[", "youtube.com">>,
      <<"evil">>,
      <<>> }
UrlLines == Padded(UrlTexts)
QualityWords == {"highest", "HIGHEST", "lowest", "Lowest", "audio", "AUDIO", "medium"}
QualityLines == Padded({<<>>} \cup {<<w>> : w \in QualityWords})

Unset == <<"<unset>">>
NoCalls == [setup |-> 0, prompt |-> 0, read |-> 0, download |-> 0, validate |-> 0,
            resolve |-> 0, list |-> 0, fetch |-> 0, getsize |-> 0]

Say(o, m, a) == Append(o, [msg |-> m, arg |-> a])
Said(m) == \E i \in 1..Len(out) : out[i].msg = m
SaidWith(m, a) == \E i \in 1..Len(out) : out[i] = [msg |-> m, arg |-> a]
Count(m) == Cardinality({i \in 1..Len(out) : out[i].msg = m})
Called(op) == [calls EXCEPT ![op] = @ + 1]

Init ==
    /\ entry \in {"main", "download_video"}
    /\ qToken = Unset
    /\ quality = Unset
    /\ valid = "unset"
    /\ policy = "unset"
    /\ listed = <<>>
    /\ stream = <<>>
    /\ ret = "unset"
    /\ out = <<>>
    /\ fileWritten = FALSE
    /\ exc = <<>>
    /\ intAt = "none"
    /\ fault = "none"
    /\ exitStatus = -1
    /\ IF entry = "main"
       THEN /\ pc = "setup"
            /\ url = Unset
            /\ argQuality = Unset
            /\ calls = NoCalls
       ELSE \* download_video(url, quality) called by an importer of the module
            /\ pc = "validate"
            /\ url \in {Strip(l) : l \in UrlLines}
            /\ argQuality \in {GetQuality(l) : l \in QualityLines}
            /\ calls = [NoCalls EXCEPT !.download = 1]

\* An exception e raised at the position pc: taken by download_video's
\* handlers (lines 89-94), by main's (lines 119-121), or by nobody.
Throw(e) ==
    LET h == IF pc \in DownloadTry THEN DownloadHandler(e.kind) ELSE "propagate"
    IN  /\ exc' = IF pc \in DownloadTry THEN Append(exc, e) ELSE exc
        /\ IF h # "propagate"
           THEN /\ out' = Say(out, h, e.text)
                /\ ret' = "None"
                /\ pc' = PcAfterHandler
                /\ UNCHANGED <<fault, exitStatus>>
           ELSE IF entry = "main" /\ pc \in MainTry /\ MainHandles(e.kind)
           THEN /\ out' = Say(out, "cancelled", "")
                /\ exitStatus' = 1
                /\ pc' = "done"
                /\ UNCHANGED <<ret, fault>>
           ELSE /\ fault' = e.kind
                /\ exitStatus' = IF entry = "main" THEN UncaughtStatus(e.kind) ELSE exitStatus
                /\ pc' = "done"
                /\ UNCHANGED <<out, ret>>

\* main, line 98: setup_environment
Setup ==
    /\ pc = "setup"
    /\ calls' = Called("setup")
    /\ \/ /\ pc' = "banner"
          /\ UNCHANGED <<out, ret, exc, fault, exitStatus>>
       \/ Throw([kind |-> "OSError", text |-> "Permission denied", at |-> pc])
    /\ UNCHANGED <<entry, url, qToken, quality, argQuality, valid, policy, listed, stream,
                   fileWritten, intAt>>

\* main, line 99: display_banner
Banner ==
    /\ pc = "banner"
    /\ out' = Say(out, "banner", "")
    /\ pc' = "input_url"
    /\ UNCHANGED <<entry, url, qToken, quality, argQuality, valid, policy, listed, stream,
                   ret, calls, fileWritten, exc, intAt, fault, exitStatus>>

\* get_user_input, lines 58-59
InputUrl ==
    /\ pc = "input_url"
    /\ \/ \E line \in UrlLines :
            /\ url' = Strip(line)
            /\ calls' = [calls EXCEPT !.prompt = @ + 1, !.read = @ + 1]
            /\ out' = Say(out, "qualities", "")
            /\ pc' = "input_quality"
            /\ UNCHANGED <<ret, exc, fault, exitStatus>>
       \/ /\ calls' = Called("prompt")
          /\ Throw([kind |-> "EOFError", text |-> "EOF when reading a line", at |-> pc])
          /\ UNCHANGED url
    /\ UNCHANGED <<entry, qToken, quality, argQuality, valid, policy, listed, stream,
                   fileWritten, intAt>>

\* get_user_input, lines 60-61
InputQuality ==
    /\ pc = "input_quality"
    /\ \/ \E line \in QualityLines :
            /\ qToken' = Strip(line)
            /\ quality' = GetQuality(line)
            /\ calls' = Called("read")
            /\ pc' = "normalize"
            /\ UNCHANGED <<out, ret, exc, fault, exitStatus>>
       \/ /\ Throw([kind |-> "EOFError", text |-> "EOF when reading a line", at |-> pc])
          /\ UNCHANGED <<qToken, quality, calls>>
    /\ UNCHANGED <<entry, url, argQuality, valid, policy, listed, stream, fileWritten, intAt>>

\* main, lines 104-108
Normalize ==
    /\ pc = "normalize"
    /\ LET n == NormalizeQuality(quality)
       IN  /\ quality' = n.quality
           /\ out' = Say(IF n.warned THEN Say(out, "warn_quality", "") ELSE out,
                         "processing", "")
    /\ pc' = "call"
    /\ UNCHANGED <<entry, url, qToken, argQuality, valid, policy, listed, stream, ret, calls,
                   fileWritten, exc, intAt, fault, exitStatus>>

\* main, line 109: the call of download_video
Call ==
    /\ pc = "call"
    /\ argQuality' = DownloadArg(quality)
    /\ calls' = Called("download")
    /\ pc' = "validate"
    /\ UNCHANGED <<entry, url, qToken, quality, valid, policy, listed, stream, ret, out,
                   fileWritten, exc, intAt, fault, exitStatus>>

\* download_video, lines 68-70
Validate ==
    /\ pc = "validate"
    /\ calls' = Called("validate")
    /\ valid' = IF is_valid_url(url) THEN "True" ELSE "False"
    /\ IF Proceeds(is_valid_url(url))
       THEN /\ pc' = "construct"
            /\ UNCHANGED <<out, ret>>
       ELSE /\ out' = Say(out, "invalid_url", "")
            /\ ret' = "None"
            /\ pc' = PcAfterReturn
    /\ UNCHANGED <<entry, url, qToken, quality, argQuality, policy, listed, stream,
                   fileWritten, exc, intAt, fault, exitStatus>>

\* download_video, line 73: YouTube(url)
Construct ==
    /\ pc = "construct"
    /\ calls' = Called("resolve")
    /\ \/ /\ pc' = "select"
          /\ UNCHANGED <<out, ret, exc, fault, exitStatus>>
       \/ \E k \in CollaboratorErrors, t \in ErrTexts :
              Throw([kind |-> k, text |-> t, at |-> pc])
    /\ UNCHANGED <<entry, url, qToken, quality, argQuality, valid, policy, listed, stream,
                   fileWritten, intAt>>

\* download_video, lines 74-84: yt.streams is read in the branch taken
Select ==
    /\ pc = "select"
    /\ policy' = Branch(argQuality)
    /\ \/ /\ Branch(argQuality) = "none"
          /\ stream' = <<>>
          /\ UNCHANGED listed
          /\ out' = Say(out, "no_stream", "")
          /\ ret' = "None"
          /\ pc' = PcAfterReturn
          /\ UNCHANGED <<calls, exc, fault, exitStatus>>
       \/ /\ Branch(argQuality) # "none"
          /\ calls' = Called("list")
          /\ \/ \E streams \in StreamLists :
                  /\ listed' = streams
                  /\ stream' = SelectStream(streams, Branch(argQuality))
                  /\ IF StreamMissing(stream')
                     THEN /\ out' = Say(out, "no_stream", "")
                          /\ ret' = "None"
                          /\ pc' = PcAfterReturn
                     ELSE /\ pc' = "fetch"
                          /\ UNCHANGED <<out, ret>>
                  /\ UNCHANGED <<exc, fault, exitStatus>>
             \/ /\ \E k \in CollaboratorErrors, t \in ErrTexts :
                       Throw([kind |-> k, text |-> t, at |-> pc])
                /\ UNCHANGED <<listed, stream>>
    /\ UNCHANGED <<entry, url, qToken, quality, argQuality, valid, fileWritten, intAt>>

\* download_video, lines 86-87: stream.download; a failed fetch may leave a
\* partial file
Fetch ==
    /\ pc = "fetch"
    /\ calls' = Called("fetch")
    /\ \/ \E path \in Paths :
            /\ fileWritten' = TRUE
            /\ ret' = path
            /\ pc' = PcAfterReturn
            /\ UNCHANGED <<out, exc, fault, exitStatus>>
       \/ /\ fileWritten' \in BOOLEAN
          /\ \E k \in CollaboratorErrors, t \in ErrTexts :
                 Throw([kind |-> k, text |-> t, at |-> pc])
    /\ UNCHANGED <<entry, url, qToken, quality, argQuality, valid, policy, listed, stream, intAt>>

\* main, lines 111-114 and 116-117; falling off main ends the process with 0
Report ==
    /\ pc = "report"
    /\ IF ret \notin {"None", ""}
       THEN /\ out' = Say(Say(out, "success", ""), "saved_path", ret)
            /\ pc' = "getsize"
            /\ UNCHANGED exitStatus
       ELSE /\ out' = Say(out, "failed", "")
            /\ pc' = "done"
            /\ exitStatus' = 0
    /\ UNCHANGED <<entry, url, qToken, quality, argQuality, valid, policy, listed, stream, ret,
                   calls, fileWritten, exc, intAt, fault>>

\* main, line 115: os.getsize is evaluated before the line is printed
GetSize ==
    /\ pc = "getsize"
    /\ calls' = Called("getsize")
    /\ \/ /\ out' = Say(out, "size", "")
          /\ pc' = "done"
          /\ exitStatus' = 0
          /\ UNCHANGED <<ret, exc, fault>>
       \/ Throw([kind |-> "OSError", text |-> "No such file or directory", at |-> pc])
    /\ UNCHANGED <<entry, url, qToken, quality, argQuality, valid, policy, listed, stream,
                   fileWritten, intAt>>

\* KeyboardInterrupt raised while the step at pc runs.  Inside is_valid_url's
\* try block (lines 47-52) the bare except of line 53 takes it and the
\* validator answers False; anywhere else it is raised at pc.
Interrupt ==
    /\ pc # "done"
    /\ intAt = "none"
    /\ intAt' = pc
    /\ \/ /\ pc = "validate"
          /\ ValidatorHandles("KeyboardInterrupt")
          /\ calls' = Called("validate")
          /\ valid' = "False"
          /\ out' = Say(out, "invalid_url", "")
          /\ ret' = "None"
          /\ pc' = PcAfterReturn
          /\ UNCHANGED <<fileWritten, exc, fault, exitStatus>>
       \/ /\ calls' = CASE pc = "construct" -> Called("resolve")
                        [] pc = "fetch" -> Called("fetch")
                        [] OTHER -> calls
          /\ IF pc = "fetch" THEN fileWritten' \in BOOLEAN ELSE UNCHANGED fileWritten
          /\ Throw([kind |-> "KeyboardInterrupt", text |-> "", at |-> pc])
          /\ UNCHANGED valid
    /\ UNCHANGED <<entry, url, qToken, quality, argQuality, policy, listed, stream>>

Next ==
    \/ Setup
    \/ Banner
    \/ InputUrl
    \/ InputQuality
    \/ Normalize
    \/ Call
    \/ Validate
    \/ Construct
    \/ Select
    \/ Fetch
    \/ Report
    \/ GetSize
    \/ Interrupt

Spec == Init /\ [][Next]_vars

\* ------------------------------------------- the validator on its own
\* The URLs is_valid_url is applied to: every text of up to MaxFreeLen
\* pieces, and every scheme://... text with up to MaxAuthLen pieces after
\* the "//".
FreeUrls == SeqsUpTo(UrlPieces, MaxFreeLen)
ShapedUrls ==
    {<<w, ":", "/", "/">> \o a : w \in SchemeWords, a \in SeqsUpTo(UrlPieces, MaxAuthLen)}
Urls == FreeUrls \cup ShapedUrls

InitUrl ==
    /\ entry = "is_valid_url"
    /\ pc = "validate"
    /\ url \in Urls
    /\ qToken = Unset
    /\ quality = Unset
    /\ argQuality = Unset
    /\ valid = "unset"
    /\ policy = "unset"
    /\ listed = <<>>
    /\ stream = <<>>
    /\ ret = "unset"
    /\ out = <<>>
    /\ calls = NoCalls
    /\ fileWritten = FALSE
    /\ exc = <<>>
    /\ intAt = "none"
    /\ fault = "none"
    /\ exitStatus = -1

\* is_valid_url(url), lines 45-54
IsValidUrl ==
    /\ entry = "is_valid_url"
    /\ pc = "validate"
    /\ calls' = Called("validate")
    /\ valid' = IF is_valid_url(url) THEN "True" ELSE "False"
    /\ pc' = "done"
    /\ UNCHANGED <<entry, url, qToken, quality, argQuality, policy, listed, stream, ret,
                   out, fileWritten, exc, intAt, fault, exitStatus>>

NextUrl == IsValidUrl

SpecUrl == InitUrl /\ [][NextUrl]_vars

\* ------------------------------------------------------------- claims
Terminated == pc = "done"
MainRun == entry = "main"
NetworkCalls == calls.resolve + calls.list + calls.fetch
InputPhase == {"input_url", "input_quality"}
DownloadPhase == {"validate", "construct", "select", "fetch"}
SuccessReported ==
    Said("success") /\ (\E p \in Paths : SaidWith("saved_path", p)) /\ Said("size")
SuccessLines == Count("success") + Count("saved_path") + Count("size")

\* C1: once is_valid_url has answered False for the request's URL,
\* download_video has printed the invalid-URL message and returned None, and
\* the collaborator was never invoked (no YouTube(url), no stream listing, no
\* stream.download) and no file was written.
C1_InvalidUrlNoNetwork ==
    (calls.validate >= 1 /\ entry # "is_valid_url" /\ ~is_valid_url(url)) =>
        /\ valid = "False"
        /\ ret = "None"
        /\ SaidWith("invalid_url", "")
        /\ NetworkCalls = 0
        /\ ~fileWritten
        /\ pc \in {"report", "done"}

C1_Witness ==
    /\ MainRun /\ Terminated /\ intAt = "none"
    /\ calls.validate = 1 /\ ~is_valid_url(url)
    /\ url = <<"ftp", ":", "/", "/", "youtube.com">>
    /\ exitStatus = 0

\* C2: every run of main that called download_video and was not interrupted
\* ends with exit status 0 and no uncaught exception, whatever the pipeline
\* steps did, a failing os.getsize after a successful fetch included.
C2_AlwaysExitZero ==
    (MainRun /\ Terminated /\ intAt = "none" /\ calls.download = 1) =>
        (exitStatus = 0 /\ fault = "none")

\* C3: every error the collaborator raised while resolving (YouTube(url),
\* yt.streams) or fetching was caught inside download_video: a failure message
\* with the error's text was printed, download_video returned None, nothing
\* was raised to the caller, and fetch was not called after a resolve error.
C3_CollaboratorErrorsCaught ==
    \A i \in 1..Len(exc) :
        exc[i].kind \in CollaboratorErrors =>
            /\ ret = "None"
            /\ fault = "none"
            /\ pc \notin DownloadTry
            /\ \/ SaidWith("youtube_error", exc[i].text)
               \/ SaidWith("download_error", exc[i].text)
            /\ exc[i].at \in {"construct", "select"} => calls.fetch = 0
            /\ exc[i].at = "fetch" => calls.fetch = 1

C3_Witness ==
    /\ MainRun /\ Terminated /\ exitStatus = 0
    /\ exc = <<[kind |-> "OSError", text |-> "timed out", at |-> "fetch"]>>
    /\ SaidWith("download_error", "timed out")

\* C4 as stated: every finished run of main in which nothing went uncaught
\* prompted once and invoked download_video exactly once, with resolve and
\* fetch called at most once each.
C4_ExactlyOnceEveryRun ==
    (MainRun /\ Terminated /\ fault = "none") =>
        /\ calls.prompt = 1
        /\ calls.download = 1
        /\ calls.resolve <= 1
        /\ calls.fetch <= 1

\* C4 as amended: main prompts at most once and invokes download_video at most
\* once, and exactly once in every finished run in which both prompts were
\* answered and no interrupt arrived before the call; resolve, the stream
\* listing and fetch are each called at most once, at most one failure occurs
\* and nothing is attempted after it; a run that has not finished can step.
C4_AtMostOnceNoRetry ==
    /\ calls.prompt <= 1
    /\ calls.download <= 1
    /\ calls.resolve <= 1
    /\ calls.list <= 1
    /\ calls.fetch <= 1
    /\ Len(exc) <= 1
    /\ (ret = "None" \/ exc # <<>>) => pc \in {"report", "done"}
    /\ (MainRun /\ Terminated /\ calls.read = 2 /\ intAt \notin {"normalize", "call"})
           => calls.download = 1
    /\ Terminated \/ ENABLED Next

C4_Witness ==
    /\ MainRun /\ Terminated /\ exitStatus = 0
    /\ calls.prompt = 1 /\ calls.download = 1 /\ calls.resolve = 1 /\ calls.fetch = 1
    /\ Len(exc) = 1 /\ ret = "None"

\* C5 as stated: whenever main calls download_video after a token that is not
\* a recognized value (up to case), the empty token included, the warning was
\* printed and the quality passed is highest.
C5_UnrecognizedAlwaysWarned ==
    (MainRun /\ calls.download >= 1 /\ ~InSupported(Lower(qToken))) =>
        (Said("warn_quality") /\ argQuality = <<"highest">>)

\* C5 as amended: the quality main passes to download_video is always one of
\* the three recognized values; a token that is not recognized up to case is
\* replaced by highest, with the warning exactly when the token is not empty
\* (the empty token takes the prompt's default silently); a recognized token
\* draws no warning; and the call is reached with nothing raised.
C5_NormalizedQuality ==
    (MainRun /\ calls.download >= 1) =>
        /\ InSupported(argQuality)
        /\ ~InSupported(Lower(qToken)) =>
               /\ argQuality = <<"highest">>
               /\ Said("warn_quality") <=> qToken # <<>>
        /\ InSupported(Lower(qToken)) =>
               /\ argQuality = Lower(qToken)
               /\ ~Said("warn_quality")
        /\ pc = "validate" => (fault = "none" /\ exitStatus = -1)

C5_Witness ==
    /\ MainRun /\ Terminated /\ exitStatus = 0
    /\ qToken = <<"medium">> /\ Said("warn_quality")
    /\ policy = "highest" /\ ret \in Paths /\ SuccessReported

\* C6 as stated: download_video, called with a token that is a recognized
\* value up to letter case, takes the branch of the lower-case token.
C6_DownloadVideoIgnoresCase ==
    (policy # "unset" /\ InSupported(Lower(argQuality))) =>
        policy = Lower(argQuality)[1]

\* C6 as amended: in a run of main, a token typed at the prompt that is a
\* recognized value up to letter case is lower-cased before the call, so
\* download_video takes the branch of the lower-case token and selects the
\* stream that branch selects; download_video itself compares the token as
\* given, and takes a branch only for an exact lower-case value.
C6_MainIgnoresCase ==
    /\ (MainRun /\ policy # "unset" /\ InSupported(Lower(qToken))) =>
           /\ policy = Lower(qToken)[1]
           /\ (calls.list = 1 /\ exc = <<>>) =>
                  stream = SelectStream(listed, Lower(qToken)[1])
    /\ (policy # "unset") => (policy # "none" <=> InSupported(argQuality))

C6_Witness ==
    /\ MainRun /\ Terminated /\ exitStatus = 0
    /\ qToken = <<"Lowest">> /\ policy = "lowest"
    /\ Len(listed) >= 2 /\ ret \in Paths

\* C7: when the selection ran and yielded no stream, download_video printed
\* the no-stream message and returned None, fetch was never called, nothing
\* was raised or reported as an error, and an uninterrupted run of main ends
\* with status 0; the audio rule yields no stream on a listing without
\* audio-only entries.
C7_NoStreamIsFailureResult ==
    /\ (policy # "unset" /\ stream = <<>> /\ exc = <<>>) =>
           /\ SaidWith("no_stream", "")
           /\ ret = "None"
           /\ calls.fetch = 0
           /\ fault = "none"
           /\ ~Said("youtube_error") /\ ~Said("download_error")
           /\ pc \in {"report", "done"}
           /\ (MainRun /\ Terminated /\ intAt = "none") => exitStatus = 0
    /\ (policy = "audio" /\ calls.list = 1 /\ exc = <<>>
            /\ \A i \in 1..Len(listed) : ~listed[i].only_audio) => stream = <<>>

C7_Witness ==
    /\ MainRun /\ Terminated /\ exitStatus = 0
    /\ policy = "audio" /\ calls.list = 1 /\ Len(listed) >= 1
    /\ stream = <<>> /\ SaidWith("no_stream", "") /\ Said("failed")

\* The URLs of scheme http or https, "//", and an authority (the text up to
\* the next "/") that has no bracket and holds youtube.com or youtu.be.
AuthorityEnd(u) ==
    IF \E j \in 5..Len(u) : u[j] = "/"
    THEN (CHOOSE j \in 5..Len(u) : u[j] = "/" /\ \A k \in 5..(j - 1) : u[k] # "/") - 1
    ELSE Len(u)

YoutubeShaped(u) ==
    /\ Len(u) >= 5
    /\ u[1] \in {"http", "HTTPS"}
    /\ u[2] = ":" /\ u[3] = "/" /\ u[4] = "/"
    /\ \A k \in 5..AuthorityEnd(u) : u[k] # "["
    /\ \E k \in 5..AuthorityEnd(u) : u[k] \in {"youtube.com", "youtu.be"}

\* The index of the last occurrence, 0 when there is none.
FindLast(s, piece) ==
    IF Has(s, piece)
    THEN CHOOSE i \in 1..Len(s) :
             s[i] = piece /\ \A k \in (i + 1)..Len(s) : s[k] # piece
    ELSE 0

\* The host of an authority [userinfo "@"] host [":" port], as written: the
\* netloc after the last "@", up to the first ":".
hostname(netloc) ==
    LET a        == FindLast(netloc, "@")
        hostinfo == SubSeq(netloc, a + 1, Len(netloc))
        c        == Find(hostinfo, ":")
    IN  IF c = 0 THEN hostinfo ELSE SubSeq(hostinfo, 1, c - 1)

\* C8 as stated, on the URLs without a port: is_valid_url answers, and
\* answers True exactly when the URL parses, its scheme is http or https and its host (the authority without
\* user info and port) holds youtube.com or youtu.be.
C8_HostSubstring ==
    (entry = "is_valid_url" /\ Terminated /\ ~Has(urlparse(url).netloc, ":")) =>
        /\ valid \in {"True", "False"}
        /\ valid = "True" <=>
               /\ ~urlparse(url).raised
               /\ IsHttpScheme(urlparse(url).scheme)
               /\ IsYoutubeText(hostname(urlparse(url).netloc))

\* C8 as amended: is_valid_url answers for every text, and answers True
\* exactly when the text is http or https (in any case), "://", and an
\* authority (user info, host and port, as written) that parses and holds
\* youtube.com or youtu.be in lower case; it answers False when urlparse
\* raises.
C8_NetlocSubstring ==
    (entry = "is_valid_url" /\ Terminated) =>
        /\ valid \in {"True", "False"}
        /\ fault = "none"
        /\ valid = "True" <=> YoutubeShaped(url)
        /\ urlparse(url).raised => valid = "False"

C8_Witness ==
    /\ entry = "is_valid_url" /\ Terminated
    /\ valid = "True"
    /\ ~IsYoutubeText(hostname(urlparse(url).netloc))

\* C9: a run of main in which KeyboardInterrupt arrived during the input
\* phase or while download_video was running ended with the cancellation
\* message and exit status 1, and printed neither the success lines nor the
\* failure line.
C9_InterruptNeverSwallowed ==
    (MainRun /\ Terminated /\ intAt \in InputPhase \cup DownloadPhase) =>
        /\ exitStatus = 1
        /\ Said("cancelled")
        /\ ~Said("success")
        /\ ~Said("failed")

\* C10: a finished, uninterrupted run of main that called download_video
\* printed the success message (with path and size) exactly when fetch
\* returned a file path, and otherwise printed the failure line and none of
\* the success lines.
C10_OneOutcome ==
    (MainRun /\ Terminated /\ intAt = "none" /\ calls.download = 1) =>
        /\ SuccessReported <=> ret \in Paths
        /\ ret \notin Paths => (Said("failed") /\ SuccessLines = 0)
        /\ ret \in Paths => ~Said("failed")

====
